---- MODULE Spec2Model ----
(***************************************************************************)
(* Model of the PC Time Tracker dashboard (src/frontend/js/dashboard.js):  *)
(* the aggregation pipeline processData -> generateWorkblocks,             *)
(* calculateBreakdown, calculateScores, and the asynchronous loader        *)
(* loadDashboardData with the handlers that start it.                      *)
(*                                                                         *)
(* Instants are local wall-clock minutes counted from local midnight of    *)
(* day 0 (day = t \div 1440); seconds never influence a bucket key.  A     *)
(* timestamp string that `new Date(...)` cannot parse is the Invalid Date, *)
(* whose time value, getHours() and getMinutes() are all NaN.              *)
(***************************************************************************)
EXTENDS Integers, Sequences, FiniteSets, TLC

\* The NaN number / the time value of an Invalid Date.
NaN == 0 - 1

\* A falsy category (null, undefined or ""): `if (process.category)` fails.
NoCategory == ""

(***************************************************************************)
(* Bounds of the model.                                                    *)
(***************************************************************************)
\* longest process array of the merge family of inputs
MaxProcs == 3
\* longest idle array
MaxIdle == 1
\* longest process array of the single-bucket (tally) family of inputs
MaxTally == 4
\* longest arrays of the family of inputs with unparsable timestamps
MaxInvalid == 2
\* loadDashboardData invocations issued in one behaviour, init's included
MaxLoads == 2
\* length of the cycle of values the random generator delivers
MaxPeriod == 2
\* longest process array of the timeline (grid) family of inputs
MaxGrid == 2
MaxClicks == 3
MaxClock == 3

(***************************************************************************)
(* Date accessors.                                                         *)
(***************************************************************************)
getHours(t) == IF t = NaN THEN NaN ELSE (t \div 60) % 24

getMinutes(t) == IF t = NaN THEN NaN ELSE t % 60

\* variant: Math.round in place of Math.floor
blockKey_RoundsMinutes(t) ==
  IF t = NaN THEN NaN ELSE getHours(t) * 12 + ((2 * getMinutes(t) + 5) \div 10)

\* Math.floor(timestamp.getHours() * 12 + timestamp.getMinutes() / 5);
\* NaN for an Invalid Date (the property key is then the string "NaN").
blockKey(t) ==
  IF t = NaN THEN NaN ELSE getHours(t) * 12 + (getMinutes(t) \div 5)

(***************************************************************************)
(* generateWorkblocks, step 1: group processes into 5-minute blocks.       *)
(* timeBlocks is a JS object; it is kept as the sequence of its values in  *)
(* Object.values order: integer keys ascending, then the key "NaN".        *)
(***************************************************************************)
KeyBefore(k1, k2) == k1 # NaN /\ (k2 = NaN \/ k1 < k2)

KeyPos(timeBlocks, k) ==
  IF \E i \in 1..Len(timeBlocks) : timeBlocks[i].key = k
  THEN CHOOSE i \in 1..Len(timeBlocks) : timeBlocks[i].key = k
  ELSE 0

NewBlock(timestamp, k) ==
  [key |-> k, startTime |-> timestamp, processes |-> <<>>,
   category |-> NoCategory, duration |-> 5 * 60, isIdle |-> FALSE]

InsertBlock(timeBlocks, b) ==
  LET n == Cardinality({i \in 1..Len(timeBlocks) : KeyBefore(timeBlocks[i].key, b.key)})
  IN  SubSeq(timeBlocks, 1, n) \o <<b>> \o SubSeq(timeBlocks, n + 1, Len(timeBlocks))

AddProcess(timeBlocks, process) ==
  LET k   == blockKey(process.timestamp)
      tb1 == IF KeyPos(timeBlocks, k) = 0
             THEN InsertBlock(timeBlocks, NewBlock(process.timestamp, k))
             ELSE timeBlocks
      i   == KeyPos(tb1, k)
  IN  [tb1 EXCEPT ![i].processes = Append(@, process)]

RECURSIVE GroupProcesses(_, _)
GroupProcesses(timeBlocks, processes) ==
  IF processes = <<>> THEN timeBlocks
  ELSE GroupProcesses(AddProcess(timeBlocks, Head(processes)), Tail(processes))

(***************************************************************************)
(* Step 2: mark idle blocks.                                               *)
(***************************************************************************)
\* variant: the is_idle flag of the entry is not tested
MarkIdleEntry_IgnoresFlag(timeBlocks, idleEntry) ==
  LET i == KeyPos(timeBlocks, blockKey(idleEntry.timestamp))
  IN  IF i # 0
      THEN [timeBlocks EXCEPT ![i].isIdle = TRUE]
      ELSE timeBlocks

MarkIdleEntry(timeBlocks, idleEntry) ==
  LET i == KeyPos(timeBlocks, blockKey(idleEntry.timestamp))
  IN  IF i # 0 /\ idleEntry.is_idle
      THEN [timeBlocks EXCEPT ![i].isIdle = TRUE]
      ELSE timeBlocks

RECURSIVE MarkIdle(_, _)
MarkIdle(timeBlocks, idle) ==
  IF idle = <<>> THEN timeBlocks
  ELSE MarkIdle(MarkIdleEntry(timeBlocks, Head(idle)), Tail(idle))

(***************************************************************************)
(* Step 3: the category of each block.  categoryCounts is a JS object with *)
(* category-name keys; Object.entries lists them in insertion order.       *)
(***************************************************************************)
CountCategory(categoryCounts, process) ==
  IF process.category = NoCategory THEN categoryCounts
  ELSE IF \E i \in 1..Len(categoryCounts) : categoryCounts[i].category = process.category
       THEN [i \in 1..Len(categoryCounts) |->
               IF categoryCounts[i].category = process.category
               THEN [categoryCounts[i] EXCEPT !.count = @ + 1]
               ELSE categoryCounts[i]]
       ELSE Append(categoryCounts, [category |-> process.category, count |-> 1])

RECURSIVE CategoryCounts(_, _)
CategoryCounts(categoryCounts, processes) ==
  IF processes = <<>> THEN categoryCounts
  ELSE CategoryCounts(CountCategory(categoryCounts, Head(processes)), Tail(processes))

\* variant: count >= maxCount, the last of the tied categories wins
IsNewMax_OrEqual(count, maxCount) == count >= maxCount

\* if (count > maxCount) { maxCount = count; maxCategory = category; }
IsNewMax(count, maxCount) == count > maxCount

RECURSIVE MostCommon(_, _, _)
MostCommon(entries, maxCount, maxCategory) ==
  IF entries = <<>> THEN maxCategory
  ELSE IF IsNewMax(Head(entries).count, maxCount)
       THEN MostCommon(Tail(entries), Head(entries).count, Head(entries).category)
       ELSE MostCommon(Tail(entries), maxCount, maxCategory)

\* variant: the category of the first categorized sample, without counting
BlockCategory_FirstSample(processes) ==
  LET counts == CategoryCounts(<<>>, processes)
  IN  IF counts = <<>> THEN "Other" ELSE counts[1].category

\* block.category = maxCategory || "Other"
BlockCategory(processes) ==
  LET maxCategory == MostCommon(CategoryCounts(<<>>, processes), 0, NoCategory)
  IN  IF maxCategory = NoCategory THEN "Other" ELSE maxCategory

Classify(timeBlocks) ==
  [i \in 1..Len(timeBlocks) |->
     [timeBlocks[i] EXCEPT !.category = BlockCategory(timeBlocks[i].processes)]]

(***************************************************************************)
(* Step 4: sort by startTime and merge.  The comparator a.startTime -      *)
(* b.startTime is NaN when either date is invalid, which Array.prototype   *)
(* .sort treats as +0; the sort is stable, and the only block that can     *)
(* hold an Invalid Date (key "NaN") is last in Object.values order, so it  *)
(* stays last.                                                             *)
(***************************************************************************)
\* variant: b.startTime - a.startTime
CompareStart_Descending(a, b) ==
  IF a.startTime = NaN \/ b.startTime = NaN THEN 0 ELSE b.startTime - a.startTime

CompareStart(a, b) ==
  IF a.startTime = NaN \/ b.startTime = NaN THEN 0 ELSE a.startTime - b.startTime

InsertSorted(sorted, b) ==
  LET later == {i \in 1..Len(sorted) :
                  \A j \in i..Len(sorted) : CompareStart(sorted[j], b) > 0}
      n     == Len(sorted) - Cardinality(later)
  IN  SubSeq(sorted, 1, n) \o <<b>> \o SubSeq(sorted, n + 1, Len(sorted))

RECURSIVE SortBlocks(_, _)
SortBlocks(sorted, blocks) ==
  IF blocks = <<>> THEN sorted
  ELSE SortBlocks(InsertSorted(sorted, Head(blocks)), Tail(blocks))

\* { ...block }: the merged block has the fields of a time block; the key is
\* the property name in timeBlocks and is not part of the value.
CopyBlock(b) ==
  [startTime |-> b.startTime, processes |-> b.processes,
   category |-> b.category, duration |-> b.duration, isIdle |-> b.isIdle]

\* variant: the idle flag of the current block is not tested
CanMerge_IgnoresCurrentIdle(currentBlock, block) ==
  /\ currentBlock.category = block.category
  /\ ~block.isIdle

CanMerge(currentBlock, block) ==
  /\ currentBlock.category = block.category
  /\ ~block.isIdle
  /\ ~currentBlock.isIdle

\* variant: a merge concatenates the samples and leaves the duration
\* (m = [merged, hasCurrent, currentBlock])
MergeStep_KeepsDuration(m, block) ==
  IF ~m.hasCurrent
  THEN [m EXCEPT !.hasCurrent = TRUE, !.currentBlock = CopyBlock(block)]
  ELSE IF CanMerge(m.currentBlock, block)
       THEN [m EXCEPT !.currentBlock.processes = @ \o block.processes]
       ELSE [m EXCEPT !.merged = Append(@, m.currentBlock),
                      !.currentBlock = CopyBlock(block)]

\* m = [merged, hasCurrent, currentBlock]
MergeStep(m, block) ==
  IF ~m.hasCurrent
  THEN [m EXCEPT !.hasCurrent = TRUE, !.currentBlock = CopyBlock(block)]
  ELSE IF CanMerge(m.currentBlock, block)
       THEN [m EXCEPT !.currentBlock.duration = @ + block.duration,
                      !.currentBlock.processes = @ \o block.processes]
       ELSE [m EXCEPT !.merged = Append(@, m.currentBlock),
                      !.currentBlock = CopyBlock(block)]

RECURSIVE MergeLoop(_, _)
MergeLoop(m, blocks) ==
  IF blocks = <<>> THEN m ELSE MergeLoop(MergeStep(m, Head(blocks)), Tail(blocks))

MergeBlocks(sorted) ==
  LET m == MergeLoop([merged |-> <<>>, hasCurrent |-> FALSE,
                      currentBlock |-> CopyBlock(NewBlock(NaN, NaN))], sorted)
  IN  IF m.hasCurrent THEN Append(m.merged, m.currentBlock) ELSE m.merged

TimeBlocks(processes, idle) ==
  Classify(MarkIdle(GroupProcesses(<<>>, processes), idle))

generateWorkblocks(processes, idle) ==
  MergeBlocks(SortBlocks(<<>>, TimeBlocks(processes, idle)))

(***************************************************************************)
(* calculateBreakdown: 5 seconds per process entry, by category.           *)
(***************************************************************************)
\* process.category || "Other"
CategoryOrOther(process) ==
  IF process.category = NoCategory THEN "Other" ELSE process.category

\* variant: a process without category is skipped
AddSeconds_SkipsUncategorized(categories, process) ==
  IF process.category = NoCategory THEN categories
  ELSE IF \E i \in 1..Len(categories) : categories[i].name = process.category
       THEN [i \in 1..Len(categories) |->
               IF categories[i].name = process.category
               THEN [categories[i] EXCEPT !.seconds = @ + 5]
               ELSE categories[i]]
       ELSE Append(categories, [name |-> process.category, seconds |-> 5])

\* variant: a process entry is credited the duration of a block
AddSeconds_CreditsBlockDuration(categories, process) ==
  LET category == CategoryOrOther(process)
  IN  IF \E i \in 1..Len(categories) : categories[i].name = category
      THEN [i \in 1..Len(categories) |->
              IF categories[i].name = category
              THEN [categories[i] EXCEPT !.seconds = @ + 5 * 60]
              ELSE categories[i]]
      ELSE Append(categories, [name |-> category, seconds |-> 5 * 60])

AddSeconds(categories, process) ==
  LET category == CategoryOrOther(process)
  IN  IF \E i \in 1..Len(categories) : categories[i].name = category
      THEN [i \in 1..Len(categories) |->
              IF categories[i].name = category
              THEN [categories[i] EXCEPT !.seconds = @ + 5]
              ELSE categories[i]]
      ELSE Append(categories, [name |-> category, seconds |-> 5])

RECURSIVE CategorySeconds(_, _)
CategorySeconds(categories, processes) ==
  IF processes = <<>> THEN categories
  ELSE CategorySeconds(AddSeconds(categories, Head(processes)), Tail(processes))

\* Math.round((part / total) * 100) on exact quotients (round half up);
\* 0 / 0 is NaN.  With the bounds used here no quotient is within a
\* floating-point error of a half, so the exact value is the JS value.
Percent(part, total) ==
  IF total = 0 THEN NaN ELSE (200 * part + total) \div (2 * total)

\* variant: a.seconds - b.seconds
InsertBySeconds_Ascending(sorted, e) ==
  LET later == {i \in 1..Len(sorted) :
                  \A j \in i..Len(sorted) : sorted[j].seconds - e.seconds > 0}
      n     == Len(sorted) - Cardinality(later)
  IN  SubSeq(sorted, 1, n) \o <<e>> \o SubSeq(sorted, n + 1, Len(sorted))

\* breakdown.sort((a, b) => b.seconds - a.seconds), stable
InsertBySeconds(sorted, e) ==
  LET later == {i \in 1..Len(sorted) :
                  \A j \in i..Len(sorted) : e.seconds - sorted[j].seconds > 0}
      n     == Len(sorted) - Cardinality(later)
  IN  SubSeq(sorted, 1, n) \o <<e>> \o SubSeq(sorted, n + 1, Len(sorted))

RECURSIVE SortBreakdown(_, _)
SortBreakdown(sorted, breakdown) ==
  IF breakdown = <<>> THEN sorted
  ELSE SortBreakdown(InsertBySeconds(sorted, Head(breakdown)), Tail(breakdown))

calculateBreakdown(processes) ==
  LET categories == CategorySeconds(<<>>, processes)
      totalTime  == 5 * Len(processes)
      breakdown  == [i \in 1..Len(categories) |->
                       [name |-> categories[i].name,
                        seconds |-> categories[i].seconds,
                        percent |-> Percent(categories[i].seconds, totalTime)]]
  IN  SortBreakdown(<<>>, breakdown)

(***************************************************************************)
(* calculateScores.                                                        *)
(***************************************************************************)
focusCategories == {"Code", "Documentation", "Development", "Design"}

meetingCategories == {"Meeting", "Call", "Communication"}

\* d = [workDuration, breakDuration]
AddDuration(d, block) ==
  IF block.isIdle
  THEN [d EXCEPT !.breakDuration = @ + block.duration]
  ELSE [d EXCEPT !.workDuration = @ + block.duration]

RECURSIVE Durations(_, _)
Durations(d, workblocks) ==
  IF workblocks = <<>> THEN d
  ELSE Durations(AddDuration(d, Head(workblocks)), Tail(workblocks))

\* variant: idle blocks of a focus category count as focus time
IsFocusBlock_IgnoresIdle(block) == block.category \in focusCategories

IsFocusBlock(block) == block.category \in focusCategories /\ ~block.isIdle

IsMeetingBlock(block) == block.category \in meetingCategories /\ ~block.isIdle

RECURSIVE FocusTime(_, _)
FocusTime(focusTime, workblocks) ==
  IF workblocks = <<>> THEN focusTime
  ELSE FocusTime(IF IsFocusBlock(Head(workblocks))
                 THEN focusTime + Head(workblocks).duration ELSE focusTime,
                 Tail(workblocks))

RECURSIVE MeetingTime(_, _)
MeetingTime(meetingTime, workblocks) ==
  IF workblocks = <<>> THEN meetingTime
  ELSE MeetingTime(IF IsMeetingBlock(Head(workblocks))
                   THEN meetingTime + Head(workblocks).duration ELSE meetingTime,
                   Tail(workblocks))

\* variant: the scores are taken relative to the break time alone
TotalTime_BreakOnly(work, break) == break

\* const totalTime = workDuration + breakDuration
TotalTime(work, break) == work + break

\* variant: no guard against totalTime = 0
Score_Unguarded(part, totalTime) ==
  IF totalTime = 0 THEN NaN ELSE (200 * part + totalTime) \div (2 * totalTime)

\* totalTime > 0 ? Math.round((part / totalTime) * 100) : 0
Score(part, totalTime) == IF totalTime > 0 THEN Percent(part, totalTime) ELSE 0

\* The values calculateScores leaves behind: the two globals, the chart
\* datasets [score, 100 - score] and the times it renders.
calculateScores(workblocks) ==
  LET d           == Durations([workDuration |-> 0, breakDuration |-> 0], workblocks)
      focusT      == FocusTime(0, workblocks)
      meetingT    == MeetingTime(0, workblocks)
      totalTime   == TotalTime(d.workDuration, d.breakDuration)
      focusScore    == Score(focusT, totalTime)
      meetingsScore == Score(meetingT, totalTime)
      breaksScore   == Score(d.breakDuration, totalTime)
  IN  [workDuration |-> d.workDuration, breakDuration |-> d.breakDuration,
       focusTime |-> focusT, meetingTime |-> meetingT,
       focusChart |-> <<focusScore, 100 - focusScore>>,
       meetingsChart |-> <<meetingsScore, 100 - meetingsScore>>,
       breaksChart |-> <<breaksScore, 100 - breaksScore>>]

(***************************************************************************)
(* updateTimeline: 15-minute slots from 6:00 to 22:45.                     *)
(***************************************************************************)
\* for (hour = 6; hour <= 22; hour++) for (minute = 0; minute < 60; minute += 15)
TimelineLabels ==
  [i \in 1..((22 - 6 + 1) * 4) |-> <<6 + ((i - 1) \div 4), 15 * ((i - 1) % 4)>>]

ZeroSeries == [i \in 1..Len(TimelineLabels) |-> 0]

\* variant: the index is clamped to the nearest slot of the grid
TimelineIndex_Clamped(block) ==
  LET index == (getHours(block.startTime) - 6) * 4
                 + (getMinutes(block.startTime) \div 15)
  IN  IF index < 0 THEN 0
      ELSE IF index > (22 - 6 + 1) * 4 - 1 THEN (22 - 6 + 1) * 4 - 1 ELSE index

\* (startHour - 6) * 4 + Math.floor(startMinute / 15); NaN for an Invalid Date,
\* and NaN fails both comparisons of the range test.
TimelineIndex(block) ==
  (getHours(block.startTime) - 6) * 4 + (getMinutes(block.startTime) \div 15)

InTimeline(block) ==
  /\ block.startTime # NaN
  /\ TimelineIndex(block) >= 0
  /\ TimelineIndex(block) < Len(TimelineLabels)

\* variant: the category is tested before the idle flag
TimelineSeries_CategoryFirst(block) ==
  IF block.category \in {"Code", "Documentation", "Development", "Design"}
  THEN "focus"
  ELSE IF block.category \in {"Meeting", "Call", "Communication"}
       THEN "meetings"
       ELSE IF block.isIdle THEN "breaks" ELSE "other"

TimelineSeries(block) ==
  IF block.isIdle THEN "breaks"
  ELSE IF block.category \in {"Code", "Documentation", "Development", "Design"}
       THEN "focus"
       ELSE IF block.category \in {"Meeting", "Call", "Communication"}
            THEN "meetings"
            ELSE "other"

\* variant: no test of the index against the label list; an assignment past
\* the end of a JS array lengthens it (undefined + minutes is NaN)
AddToTimeline_NoRangeTest(chart, block) ==
  LET series == TimelineSeries(block)
      index  == TimelineIndex(block)
  IN  IF block.startTime = NaN \/ index < 0 THEN chart
      ELSE IF index < Len(chart[series])
           THEN [chart EXCEPT ![series][index + 1] = @ + (block.duration \div 60)]
           ELSE [chart EXCEPT ![series] =
                   [k \in 1..(index + 1) |-> IF k <= Len(@) THEN @[k] ELSE NaN]]

\* series are 0-based in the source; slot index + 1 here
AddToTimeline(chart, block) ==
  IF InTimeline(block)
  THEN [chart EXCEPT ![TimelineSeries(block)][TimelineIndex(block) + 1] =
                        @ + (block.duration \div 60)]
  ELSE chart

RECURSIVE FillTimeline(_, _)
FillTimeline(chart, workBlocks) ==
  IF workBlocks = <<>> THEN chart
  ELSE FillTimeline(AddToTimeline(chart, Head(workBlocks)), Tail(workBlocks))

updateTimeline(workBlocks) ==
  FillTimeline([labels |-> TimelineLabels, focus |-> ZeroSeries,
                meetings |-> ZeroSeries, other |-> ZeroSeries,
                breaks |-> ZeroSeries], workBlocks)

(***************************************************************************)
(* updateWorkblocks: one row per non-idle block, with its start time,      *)
(* category, duration in minutes and a productivity score that is          *)
(* Math.floor(Math.random() * 20) + 80.  The generator is a cycle of the   *)
(* values it delivers next; a draw takes the first and moves it to the     *)
(* end.                                                                    *)
(***************************************************************************)
\* Math.round(block.duration / 60)
DurationMinutes(duration) == (2 * duration + 60) \div (2 * 60)

WorkblockRow(block, draw) ==
  [time |-> <<getHours(block.startTime), getMinutes(block.startTime)>>,
   category |-> block.category,
   duration |-> DurationMinutes(block.duration),
   score |-> draw + 80]

RECURSIVE updateWorkblocks(_, _, _)
updateWorkblocks(list, workblocks, random) ==
  IF workblocks = <<>> THEN [list |-> list, random |-> random]
  ELSE IF Head(workblocks).isIdle
       THEN updateWorkblocks(list, Tail(workblocks), random)
       ELSE updateWorkblocks(Append(list, WorkblockRow(Head(workblocks), Head(random))),
                             Tail(workblocks), Append(Tail(random), Head(random)))

(***************************************************************************)
(* State.                                                                  *)
(***************************************************************************)
VARIABLES
  currentDate,    \* local calendar day shown, as a day number
  utcDayShift,    \* UTC day minus local day at the wall-clock time of currentDate
  viewMode,       \* "day" or "week"
  cachedData,     \* processes, resources, idle, workblocks, categories, breakdown
  workDuration,
  breakDuration,
  scores,         \* what calculateScores last put on the charts and time labels
  timelineChart,  \* timelineChart.data: labels and the four datasets
  workblocksList, \* the rows of the work-block list, as updateWorkblocks built them
  mathRandom,     \* the values Math.floor(Math.random() * 20) takes next, in a cycle
  loads,          \* the loadDashboardData invocations, in the order issued
  trackingEnabled,
  breakInProgress,
  lastBreakTime,     \* instants are whole seconds since the script was loaded
  breakStartTime,
  breakEndTime,
  trackingStatus,    \* textContent of the elements the handlers write
  toggleTrackingBtn,
  startBreakBtn,
  timeSinceBreak,
  breakRatio,
  now,               \* what new Date() returns
  apiCalls,          \* the calls made to api.toggleTracking, api.logBreak, ...
  clicks             \* clicks dispatched so far, per button id

\* the state of the tracking and break controls
controls == <<trackingEnabled, breakInProgress, lastBreakTime, breakStartTime,
              breakEndTime, trackingStatus, toggleTrackingBtn, startBreakBtn,
              timeSinceBreak, breakRatio, now, apiCalls, clicks>>

vars == <<currentDate, utcDayShift, viewMode, cachedData, workDuration,
          breakDuration, scores, timelineChart, workblocksList, mathRandom, loads,
          controls>>

\* let breakStartTime = null
Null == 0 - 2

\* the text an element has from the page markup, before a handler writes it
MarkupText == "markup"

\* date.toISOString().split("T")[0]: the UTC calendar day of the instant
formatDateForAPI(date, shift) == date + shift

\* the day number of the day of construction; every date change issues a load,
\* so all dates requested stay >= 0
Today == MaxLoads

InitialData ==
  /\ currentDate = Today
  /\ viewMode = "day"
  /\ cachedData = [processes |-> <<>>, resources |-> <<>>, idle |-> <<>>,
                   workblocks |-> <<>>, categories |-> <<>>, breakdown |-> <<>>]
  /\ workDuration = 0
  /\ breakDuration = 0
  /\ scores = [focusTime |-> 0, meetingTime |-> 0,
               focusChart |-> <<60, 40>>, meetingsChart |-> <<12, 88>>,
               breaksChart |-> <<18, 82>>]
  /\ timelineChart = [labels |-> <<>>, focus |-> <<>>, meetings |-> <<>>,
                      other |-> <<>>, breaks |-> <<>>]
  /\ workblocksList = <<>>

InitialControls ==
  /\ trackingEnabled = TRUE
  /\ breakInProgress = FALSE
  /\ now = 0
  /\ lastBreakTime = now
  /\ breakStartTime = Null
  /\ breakEndTime = Null
  /\ trackingStatus = MarkupText
  /\ toggleTrackingBtn = MarkupText
  /\ startBreakBtn = MarkupText
  /\ timeSinceBreak = MarkupText
  /\ breakRatio = MarkupText
  /\ apiCalls = <<>>
  /\ clicks = [button \in {"toggle-tracking", "start-break"} |-> 0]

InitialState == InitialData /\ InitialControls

\* processData and updateDashboard have run (updateTimeline sets the labels):
\* cachedData holds the input and the results of the latest run
Processed == timelineChart.labels # <<>>

\* variant: calculateScores does not reset breakDuration before it sums the blocks
ProcessAndUpdate_KeepsBreaks(processes, resources, idle) ==
  \E workblocks \in {generateWorkblocks(processes, idle)} :
  \E s \in {calculateScores(workblocks)} :
      /\ cachedData' = [cachedData EXCEPT !.processes = processes,
                                          !.resources = resources,
                                          !.idle = idle,
                                          !.workblocks = workblocks,
                                          !.breakdown = calculateBreakdown(processes)]
      /\ workDuration' = s.workDuration
      /\ breakDuration' = breakDuration + s.breakDuration
      /\ scores' = [focusTime |-> s.focusTime, meetingTime |-> s.meetingTime,
                    focusChart |-> s.focusChart, meetingsChart |-> s.meetingsChart,
                    breaksChart |-> s.breaksChart]
      /\ timelineChart' = updateTimeline(workblocks)
      /\ workblocksList' = updateWorkblocks(<<>>, workblocks, mathRandom).list
      /\ mathRandom' = updateWorkblocks(<<>>, workblocks, mathRandom).random

\* processData(processes, resources, idle); updateDashboard()
\* (workblocks and s are bound by \E over a singleton so that each is computed once)
ProcessAndUpdate(processes, resources, idle) ==
  \E workblocks \in {generateWorkblocks(processes, idle)} :
  \E s \in {calculateScores(workblocks)} :
      /\ cachedData' = [cachedData EXCEPT !.processes = processes,
                                          !.resources = resources,
                                          !.idle = idle,
                                          !.workblocks = workblocks,
                                          !.breakdown = calculateBreakdown(processes)]
      /\ workDuration' = s.workDuration
      /\ breakDuration' = s.breakDuration
      /\ scores' = [focusTime |-> s.focusTime, meetingTime |-> s.meetingTime,
                    focusChart |-> s.focusChart, meetingsChart |-> s.meetingsChart,
                    breaksChart |-> s.breaksChart]
      /\ timelineChart' = updateTimeline(workblocks)
      /\ workblocksList' = updateWorkblocks(<<>>, workblocks, mathRandom).list
      /\ mathRandom' = updateWorkblocks(<<>>, workblocks, mathRandom).random

(***************************************************************************)
(* The pipeline on its own: processData and updateDashboard applied once   *)
(* to a freshly constructed dashboard, for every input of two families.    *)
(***************************************************************************)
SeqsUpTo(S, n) == UNION {[1..k -> S] : k \in 0..n}

\* 09:00, 09:05, 09:10 of day 0: buckets 108, 109, 110
MergeTimes == {9 * 60, 9 * 60 + 5, 9 * 60 + 10}

MergeCategories == {"Code", "Meeting", NoCategory}

IdleTimes == {9 * 60, 9 * 60 + 5}

\* up to MaxProcs samples over three adjacent buckets, up to MaxIdle idle entries
MergeInputs ==
  [processes : SeqsUpTo([timestamp : MergeTimes, category : MergeCategories], MaxProcs),
   idle : SeqsUpTo([timestamp : IdleTimes, is_idle : BOOLEAN], MaxIdle)]

TallyCategories == {"Code", "Meeting", "Other", NoCategory}

\* up to MaxTally samples of one bucket
TallyInputs ==
  [processes : SeqsUpTo([timestamp : {9 * 60}, category : TallyCategories], MaxTally),
   idle : {<<>>}]

\* up to MaxInvalid samples and idle entries, parsable (09:00, 09:10) or not
InvalidInputs ==
  [processes : SeqsUpTo([timestamp : {9 * 60, 9 * 60 + 10, NaN},
                         category : {"Code"}], MaxInvalid),
   idle : SeqsUpTo([timestamp : {9 * 60, NaN}, is_idle : {TRUE}], MaxInvalid)]

PipelineInputs == MergeInputs \cup TallyInputs \cup InvalidInputs

\* The value Math.random() delivers enters the score of a work-block row and
\* nothing else; it is held at one value here and varies in RepeatSpec.
PipeInit ==
  /\ InitialState
  /\ utcDayShift = 0
  /\ mathRandom = <<0>>
  /\ loads = <<>>

RunPipeline ==
  /\ ~Processed
  /\ \E in \in PipelineInputs :
       ProcessAndUpdate(in.processes, <<>>, in.idle)
  /\ UNCHANGED <<currentDate, utcDayShift, viewMode, loads, controls>>

PipeNext == RunPipeline

PipeSpec == PipeInit /\ [][PipeNext]_vars

(***************************************************************************)
(* The pipeline applied once to samples that lie anywhere inside their     *)
(* 5-minute windows, and to samples at both ends of the day.               *)
(***************************************************************************)
\* 09:00 and 09:02 share bucket 108; 09:05 is in bucket 109
BucketTimes == {9 * 60, 9 * 60 + 2, 9 * 60 + 5}

\* up to MaxProcs samples, up to MaxIdle idle entries at 09:01 (bucket 108)
BucketInputs ==
  [processes : SeqsUpTo([timestamp : BucketTimes, category : MergeCategories], MaxProcs),
   idle : SeqsUpTo([timestamp : {9 * 60 + 1}, is_idle : BOOLEAN], MaxIdle)]

\* 00:00, 00:04, 00:05, 23:55, 23:59: buckets 0, 0, 1, 287, 287
EdgeTimes == {0, 4, 5, 23 * 60 + 55, 23 * 60 + 59}

EdgeInputs ==
  [processes : SeqsUpTo([timestamp : EdgeTimes, category : {"Code"}], 2),
   idle : {<<>>}]

RunBucketing ==
  /\ ~Processed
  /\ \E in \in BucketInputs \cup EdgeInputs :
       ProcessAndUpdate(in.processes, <<>>, in.idle)
  /\ UNCHANGED <<currentDate, utcDayShift, viewMode, loads, controls>>

BucketNext == RunBucketing

BucketSpec == PipeInit /\ [][BucketNext]_vars

(***************************************************************************)
(* The pipeline applied once to samples before, inside and after the       *)
(* window of the timeline (06:00 to 23:00).                                *)
(***************************************************************************)
\* 05:55 and 23:00 are outside; 09:10 and 09:15 are adjacent buckets in two slots
GridTimes == {5 * 60 + 55, 6 * 60, 9 * 60 + 10, 9 * 60 + 15, 22 * 60 + 55, 23 * 60}

GridCategories == {"Code", "Meeting", "Email"}

\* up to MaxGrid samples, up to MaxIdle idle entries at 06:00 or 09:10
GridInputs ==
  [processes : SeqsUpTo([timestamp : GridTimes, category : GridCategories], MaxGrid),
   idle : SeqsUpTo([timestamp : {6 * 60, 9 * 60 + 10}, is_idle : {TRUE}], MaxIdle)]

RunGrid ==
  /\ ~Processed
  /\ \E in \in GridInputs :
       ProcessAndUpdate(in.processes, <<>>, in.idle)
  /\ UNCHANGED <<currentDate, utcDayShift, viewMode, loads, controls>>

GridNext == RunGrid

GridSpec == PipeInit /\ [][GridNext]_vars

(***************************************************************************)
(* The data the server holds for each date, as api.fetchProcesses,         *)
(* api.fetchResources and api.fetchIdleTime return it; on a network error   *)
(* or a non-OK status each of them returns [] instead.                     *)
(***************************************************************************)
ServerProcesses(dateStr) ==
  [i \in 1..(1 + (dateStr % 2)) |->
     [timestamp |-> 1440 * dateStr + 9 * 60 + 5 * (i - 1),
      category |-> IF dateStr % 3 = 0 THEN "Code"
                   ELSE IF dateStr % 3 = 1 THEN "Meeting" ELSE NoCategory]]

ServerResources(dateStr) == <<[timestamp |-> 1440 * dateStr + 9 * 60]>>

ServerIdle(dateStr) ==
  IF dateStr % 2 = 0
  THEN <<[timestamp |-> 1440 * dateStr + 9 * 60, is_idle |-> TRUE]>>
  ELSE <<>>

\* try { ... return data.x || [] } catch (error) { return [] }
FetchResult(ok, data) == IF ok THEN data ELSE <<>>

(***************************************************************************)
(* loadDashboardData.  A call runs up to its first await: it takes dateStr *)
(* from currentDate and issues fetchProcesses.  Each later step is the     *)
(* continuation after one await; continuations of different invocations    *)
(* interleave in any order.                                                *)
(***************************************************************************)
NewLoad(date, shift) ==
  [pc |-> "fetchProcesses", dateStr |-> formatDateForAPI(date, shift),
   processesResponse |-> <<>>, resourcesResponse |-> <<>>, idleResponse |-> <<>>]

loadDashboardData(date) ==
  /\ Len(loads) < MaxLoads
  /\ loads' = Append(loads, NewLoad(date, utcDayShift))

Init ==
  /\ InitialState
  /\ utcDayShift \in {0 - 1, 0, 1}
  /\ mathRandom = <<0>>
  /\ loads = <<NewLoad(Today, utcDayShift)>>

PrevDay ==
  /\ currentDate' = currentDate - 1
  /\ loadDashboardData(currentDate')
  /\ UNCHANGED <<utcDayShift, viewMode, cachedData, workDuration, breakDuration,
                 scores, timelineChart,
                 workblocksList, mathRandom, controls>>

NextDay ==
  /\ currentDate' = currentDate + 1
  /\ loadDashboardData(currentDate')
  /\ UNCHANGED <<utcDayShift, viewMode, cachedData, workDuration, breakDuration,
                 scores, timelineChart,
                 workblocksList, mathRandom, controls>>

ViewDay ==
  /\ viewMode' = "day"
  /\ loadDashboardData(currentDate)
  /\ UNCHANGED <<currentDate, utcDayShift, cachedData, workDuration, breakDuration,
                 scores, timelineChart,
                 workblocksList, mathRandom, controls>>

ViewWeek ==
  /\ viewMode' = "week"
  /\ loadDashboardData(currentDate)
  /\ UNCHANGED <<currentDate, utcDayShift, cachedData, workDuration, breakDuration,
                 scores, timelineChart,
                 workblocksList, mathRandom, controls>>

\* setInterval(loadDashboardData, 5 * 60 * 1000)
RefreshTimer ==
  /\ loadDashboardData(currentDate)
  /\ UNCHANGED <<currentDate, utcDayShift, viewMode, cachedData, workDuration,
                 breakDuration, scores, timelineChart,
                 workblocksList, mathRandom, controls>>

\* fetchProcesses has settled: const resourcesResponse = await api.fetchResources(dateStr)
FetchProcessesDone ==
  \E i \in 1..Len(loads), ok \in BOOLEAN :
    /\ loads[i].pc = "fetchProcesses"
    /\ loads' = [loads EXCEPT
                   ![i].processesResponse = FetchResult(ok, ServerProcesses(loads[i].dateStr)),
                   ![i].pc = "fetchResources"]
    /\ UNCHANGED <<currentDate, utcDayShift, viewMode, cachedData, workDuration,
                   breakDuration, scores, timelineChart,
                   workblocksList, mathRandom, controls>>

\* variant: the date string is formatted from currentDate again after the await
FetchResourcesDone_ReadsCurrentDate ==
  \E i \in 1..Len(loads), ok \in BOOLEAN :
    /\ loads[i].pc = "fetchResources"
    /\ loads' = [loads EXCEPT
                   ![i].resourcesResponse =
                      FetchResult(ok, ServerResources(formatDateForAPI(currentDate,
                                                                       utcDayShift))),
                   ![i].pc = "fetchIdleTime"]
    /\ UNCHANGED <<currentDate, utcDayShift, viewMode, cachedData, workDuration,
                   breakDuration, scores, timelineChart,
                   workblocksList, mathRandom, controls>>

\* fetchResources has settled: const idleResponse = await api.fetchIdleTime(dateStr)
FetchResourcesDone ==
  \E i \in 1..Len(loads), ok \in BOOLEAN :
    /\ loads[i].pc = "fetchResources"
    /\ loads' = [loads EXCEPT
                   ![i].resourcesResponse = FetchResult(ok, ServerResources(loads[i].dateStr)),
                   ![i].pc = "fetchIdleTime"]
    /\ UNCHANGED <<currentDate, utcDayShift, viewMode, cachedData, workDuration,
                   breakDuration, scores, timelineChart,
                   workblocksList, mathRandom, controls>>

\* variant: a failed fetchIdleTime rejects, and the catch branch of
\* loadDashboardData ends the invocation without processData
FetchIdleDone_SkipsOnFailure ==
  \E i \in 1..Len(loads), ok \in BOOLEAN :
    /\ loads[i].pc = "fetchIdleTime"
    /\ loads' = [loads EXCEPT
                   ![i].idleResponse = FetchResult(ok, ServerIdle(loads[i].dateStr)),
                   ![i].pc = "done"]
    /\ IF ok
       THEN ProcessAndUpdate(loads[i].processesResponse, loads[i].resourcesResponse,
                             ServerIdle(loads[i].dateStr))
       ELSE UNCHANGED <<cachedData, workDuration, breakDuration, scores,
                        timelineChart, workblocksList, mathRandom>>
    /\ UNCHANGED <<currentDate, utcDayShift, viewMode, controls>>

\* fetchIdleTime has settled: processData(...); updateDashboard()
FetchIdleDone ==
  \E i \in 1..Len(loads), ok \in BOOLEAN :
    /\ loads[i].pc = "fetchIdleTime"
    /\ loads' = [loads EXCEPT
                   ![i].idleResponse = FetchResult(ok, ServerIdle(loads[i].dateStr)),
                   ![i].pc = "done"]
    /\ ProcessAndUpdate(loads[i].processesResponse, loads[i].resourcesResponse,
                        FetchResult(ok, ServerIdle(loads[i].dateStr)))
    /\ UNCHANGED <<currentDate, utcDayShift, viewMode, controls>>

Next ==
  \/ PrevDay
  \/ NextDay
  \/ ViewDay
  \/ ViewWeek
  \/ RefreshTimer
  \/ FetchProcessesDone
  \/ FetchResourcesDone
  \/ FetchIdleDone

Spec == Init /\ [][Next]_vars

(***************************************************************************)
(* The tracking and break controls of dashboard.js, next to one            *)
(* loadDashboardData invocation: clicks on the two buttons, the one-second *)
(* timer and the passage of time, in any order with the continuations of   *)
(* the load.                                                               *)
(***************************************************************************)
\* `${hours}:${minutes padded}:${secs padded}`, as <<hours, minutes, secs>>
formatTime(seconds) ==
  <<seconds \div 3600, (seconds % 3600) \div 60, seconds % 60>>

\* (breakDuration / workDuration).toFixed(1), in tenths
BreakRatio(break, work) ==
  IF break > 0 /\ work > 0 THEN (20 * break + work) \div (2 * work) ELSE 0

\* a second passes
Tick ==
  /\ now < MaxClock
  /\ now' = now + 1
  /\ UNCHANGED <<currentDate, utcDayShift, viewMode, cachedData, workDuration,
                 breakDuration, scores, timelineChart, workblocksList, mathRandom,
                 loads, trackingEnabled, breakInProgress, lastBreakTime,
                 breakStartTime, breakEndTime, trackingStatus, toggleTrackingBtn,
                 startBreakBtn, timeSinceBreak, breakRatio, apiCalls, clicks>>

\* setInterval(updateBreakTimer, 1000)
updateBreakTimer ==
  /\ timeSinceBreak' = formatTime(now - lastBreakTime)
  /\ breakRatio' = BreakRatio(breakDuration, workDuration)
  /\ UNCHANGED <<currentDate, utcDayShift, viewMode, cachedData, workDuration,
                 breakDuration, scores, timelineChart, workblocksList, mathRandom,
                 loads, trackingEnabled, breakInProgress, lastBreakTime,
                 breakStartTime, breakEndTime, trackingStatus, toggleTrackingBtn,
                 startBreakBtn, now, apiCalls, clicks>>

\* the handler of a click on #toggle-tracking
toggleTracking ==
  /\ trackingEnabled' = ~trackingEnabled
  /\ trackingStatus' = IF trackingEnabled' THEN "On" ELSE "Off"
  /\ toggleTrackingBtn' =
       IF trackingEnabled' THEN "Disable Tracking" ELSE "Enable Tracking"
  /\ apiCalls' = Append(apiCalls, [call |-> "toggleTracking",
                                   enabled |-> trackingEnabled'])
  /\ UNCHANGED <<breakInProgress, lastBreakTime, breakStartTime, breakEndTime,
                 startBreakBtn, breakDuration>>

\* variant: api.logBreak is called by every call, with the times held so far
toggleBreak_LogsEveryCall ==
  /\ breakInProgress' = ~breakInProgress
  /\ IF breakInProgress'
     THEN /\ startBreakBtn' = "End Break"
          /\ breakStartTime' = now
          /\ apiCalls' = Append(apiCalls, [call |-> "logBreak",
                                           startTime |-> breakStartTime,
                                           endTime |-> breakEndTime])
          /\ UNCHANGED <<breakEndTime, lastBreakTime, breakDuration>>
     ELSE /\ startBreakBtn' = "Start Break"
          /\ breakEndTime' = now
          /\ lastBreakTime' = now
          /\ breakDuration' = breakDuration + (breakEndTime' - breakStartTime)
          /\ apiCalls' = Append(apiCalls, [call |-> "logBreak",
                                           startTime |-> breakStartTime,
                                           endTime |-> breakEndTime'])
          /\ UNCHANGED breakStartTime
  /\ UNCHANGED <<trackingEnabled, trackingStatus, toggleTrackingBtn>>

\* the handler of a click on #start-break
toggleBreak ==
  /\ breakInProgress' = ~breakInProgress
  /\ IF breakInProgress'
     THEN /\ startBreakBtn' = "End Break"
          /\ breakStartTime' = now
          /\ UNCHANGED <<breakEndTime, lastBreakTime, breakDuration, apiCalls>>
     ELSE /\ startBreakBtn' = "Start Break"
          /\ breakEndTime' = now
          /\ lastBreakTime' = now
          /\ IF breakStartTime # Null
             THEN /\ breakDuration' = breakDuration + (breakEndTime' - breakStartTime)
                  /\ apiCalls' = Append(apiCalls, [call |-> "logBreak",
                                                   startTime |-> breakStartTime,
                                                   endTime |-> breakEndTime'])
             ELSE UNCHANGED <<breakDuration, apiCalls>>
          /\ UNCHANGED breakStartTime
  /\ UNCHANGED <<trackingEnabled, trackingStatus, toggleTrackingBtn>>

\* elements.x.addEventListener("click", handler): one more click on the button
Click(button) ==
  /\ clicks["toggle-tracking"] + clicks["start-break"] < MaxClicks
  /\ clicks' = [clicks EXCEPT ![button] = @ + 1]
  /\ UNCHANGED <<currentDate, utcDayShift, viewMode, cachedData, workDuration,
                 scores, timelineChart, workblocksList, mathRandom, loads,
                 timeSinceBreak, breakRatio, now>>

ClickToggleTracking == Click("toggle-tracking") /\ toggleTracking

ClickStartBreak == Click("start-break") /\ toggleBreak

ControlInit ==
  /\ InitialState
  /\ utcDayShift = 0
  /\ mathRandom = <<0>>
  /\ loads = <<NewLoad(Today, utcDayShift)>>

ControlNext ==
  \/ ClickToggleTracking
  \/ ClickStartBreak
  \/ updateBreakTimer
  \/ Tick
  \/ FetchProcessesDone
  \/ FetchResourcesDone
  \/ FetchIdleDone

ControlSpec == ControlInit /\ [][ControlNext]_vars

(***************************************************************************)
(* The controls of the earlier dashboard version (src/unnamed/part_003).   *)
(* Its toggleTracking is async: the flag and the label are written by the  *)
(* continuation after await api.startMonitoring() or api.stopMonitoring(), *)
(* and not at all when the call throws or rejects.  Its toggleBreak throws *)
(* a TypeError on the call that ends a break: breakDuration is declared    *)
(* const in the else branch and then assigned.                             *)
(***************************************************************************)
LegacyInit ==
  /\ InitialData
  /\ utcDayShift = 0
  /\ mathRandom = <<0>>
  /\ loads = <<>>
  /\ trackingEnabled = FALSE
  /\ breakInProgress = FALSE
  /\ now = 0
  /\ lastBreakTime = now
  /\ breakStartTime = Null
  /\ breakEndTime = Null
  /\ trackingStatus = MarkupText
  /\ toggleTrackingBtn = MarkupText
  /\ startBreakBtn = MarkupText
  /\ timeSinceBreak = MarkupText
  /\ breakRatio = MarkupText
  /\ apiCalls = <<>>
  /\ clicks = [button \in {"toggle-tracking", "start-break"} |-> 0]

\* toggleTracking up to its await
LegacyToggleTracking ==
  /\ apiCalls' = Append(apiCalls,
                        [call |-> IF ~trackingEnabled THEN "startMonitoring"
                                  ELSE "stopMonitoring",
                         pc |-> "await"])
  /\ UNCHANGED <<trackingEnabled, trackingStatus, toggleTrackingBtn,
                 breakInProgress, lastBreakTime, breakStartTime, breakEndTime,
                 startBreakBtn, breakDuration>>

\* the continuation of toggleTracking: the rest of the branch, or the catch
LegacyMonitoringSettled ==
  \E i \in 1..Len(apiCalls), ok \in BOOLEAN :
    /\ apiCalls[i].pc = "await"
    /\ apiCalls' = [apiCalls EXCEPT ![i].pc = "done"]
    /\ IF ok
       THEN /\ trackingEnabled' = (apiCalls[i].call = "startMonitoring")
            /\ toggleTrackingBtn' = IF apiCalls[i].call = "startMonitoring"
                                    THEN "Stop Tracking" ELSE "Start Tracking"
       ELSE UNCHANGED <<trackingEnabled, toggleTrackingBtn>>
    /\ UNCHANGED <<currentDate, utcDayShift, viewMode, cachedData, workDuration,
                   breakDuration, scores, timelineChart, workblocksList,
                   mathRandom, loads, breakInProgress, lastBreakTime,
                   breakStartTime, breakEndTime, trackingStatus, startBreakBtn,
                   timeSinceBreak, breakRatio, now, clicks>>

\* toggleBreak of part_003; the else branch stops at breakDuration += breakDuration
LegacyToggleBreak ==
  /\ IF ~breakInProgress
     THEN /\ breakStartTime' = now
          /\ breakInProgress' = TRUE
          /\ startBreakBtn' = "End Break"
     ELSE /\ breakInProgress' = FALSE
          /\ UNCHANGED <<breakStartTime, startBreakBtn>>
  /\ UNCHANGED <<lastBreakTime, breakEndTime, breakDuration, apiCalls,
                 trackingEnabled, trackingStatus, toggleTrackingBtn>>

LegacyClickToggleTracking == Click("toggle-tracking") /\ LegacyToggleTracking

LegacyClickStartBreak == Click("start-break") /\ LegacyToggleBreak

LegacyNext ==
  \/ LegacyClickToggleTracking
  \/ LegacyMonitoringSettled
  \/ LegacyClickStartBreak
  \/ Tick

LegacySpec == LegacyInit /\ [][LegacyNext]_vars

(***************************************************************************)
(* The periodic refresh with unchanged server data: processData and        *)
(* updateDashboard run again on the arrays of the previous run.  The       *)
(* random generator starts anywhere in any cycle of MaxPeriod values.      *)
(***************************************************************************)
\* the values of Math.floor(Math.random() * 20)
RandomDraws == 0..(20 - 1)

RepeatInputs ==
  [processes : SeqsUpTo([timestamp : {9 * 60, 9 * 60 + 5},
                         category : {"Code", "Meeting"}], 2),
   idle : {<<>>, <<[timestamp |-> 9 * 60, is_idle |-> TRUE]>>}]

RepeatInit ==
  /\ InitialState
  /\ utcDayShift = 0
  /\ mathRandom \in [1..MaxPeriod -> RandomDraws]
  /\ loads = <<>>

FirstRun ==
  /\ ~Processed
  /\ \E in \in RepeatInputs :
       ProcessAndUpdate(in.processes, <<>>, in.idle)
  /\ UNCHANGED <<currentDate, utcDayShift, viewMode, loads, controls>>

Rerun ==
  /\ Processed
  /\ ProcessAndUpdate(cachedData.processes, cachedData.resources, cachedData.idle)
  /\ UNCHANGED <<currentDate, utcDayShift, viewMode, loads, controls>>

RepeatNext == FirstRun \/ Rerun

RepeatSpec == RepeatInit /\ [][RepeatNext]_vars

(***************************************************************************)
(* Vocabulary of the properties.                                           *)
(***************************************************************************)
\* the bucket indices of the samples a merged block contains
KeysOf(block) ==
  {blockKey(block.processes[i].timestamp) : i \in 1..Len(block.processes)}

\* the samples of the input that fall into bucket k, in arrival order
BucketSamples(k) ==
  SelectSeq(cachedData.processes, LAMBDA p : blockKey(p.timestamp) = k)

\* bucket k is hit by at least one idle sample with is_idle = true
IdleHit(k) ==
  \E j \in 1..Len(cachedData.idle) :
    cachedData.idle[j].is_idle /\ blockKey(cachedData.idle[j].timestamp) = k

RECURSIVE SumDurations(_, _)
SumDurations(blocks, S) ==
  IF S = {} THEN 0
  ELSE LET n == CHOOSE n \in S : TRUE
       IN  blocks[n].duration + SumDurations(blocks, S \ {n})

(***************************************************************************)
(* C1: generateWorkblocks never merges across a missing bucket: the bucket *)
(* indices inside one merged block are consecutive, so two buckets with an *)
(* absent index between them lie in two separate blocks.                   *)
(* The merge test of the code compares category and idle flags only, so    *)
(* this is violated (samples at 09:00 and 09:10, both "Code").             *)
(***************************************************************************)
\* C1: the bucket indices of every merged block form an interval without holes
C1_NoMergeAcrossGap ==
  Processed =>
    \A n \in 1..Len(cachedData.workblocks) :
      LET K == KeysOf(cachedData.workblocks[n])
      IN  NaN \notin K =>
            \A k1 \in K, k2 \in K : \A k \in k1..k2 : k \in K

(***************************************************************************)
(* C3: every merged block with isIdle = true consists of exactly one       *)
(* bucket (300 s), a bucket hit by a true idle sample, and no block with   *)
(* isIdle = false contains a bucket hit by a true idle sample.             *)
(***************************************************************************)
C3_IdleBlocksAreSingletons ==
  Processed =>
    \A n \in 1..Len(cachedData.workblocks) :
      LET b == cachedData.workblocks[n]
      IN  /\ b.isIdle =>
               /\ b.duration = 300
               /\ Cardinality(KeysOf(b)) = 1
               /\ \A k \in KeysOf(b) : IdleHit(k)
          /\ ~b.isIdle => \A k \in KeysOf(b) : ~IdleHit(k)

\* an idle block stands between two non-idle blocks of its own category
C3_Witness ==
  /\ Processed
  /\ \E n \in 2..(Len(cachedData.workblocks) - 1) :
       /\ cachedData.workblocks[n].isIdle
       /\ ~cachedData.workblocks[n - 1].isIdle
       /\ ~cachedData.workblocks[n + 1].isIdle
       /\ cachedData.workblocks[n - 1].category = cachedData.workblocks[n].category
       /\ cachedData.workblocks[n + 1].category = cachedData.workblocks[n].category

(***************************************************************************)
(* C4: the category of a bucket when several categories share the highest  *)
(* count.                                                                  *)
(***************************************************************************)
CategoriesIn(samples) ==
  {samples[i].category : i \in 1..Len(samples)} \ {NoCategory}

CountIn(samples, c, upTo) ==
  Cardinality({i \in 1..upTo : samples[i].category = c})

HighestCount(samples) ==
  CHOOSE m \in 0..Len(samples) :
    /\ \A c \in CategoriesIn(samples) : CountIn(samples, c, Len(samples)) <= m
    /\ (m = 0 \/ \E c \in CategoriesIn(samples) : CountIn(samples, c, Len(samples)) = m)

TiedCategories(samples) ==
  {c \in CategoriesIn(samples) : CountIn(samples, c, Len(samples)) = HighestCount(samples)}

\* the position at which category c reaches count m
ReachesAt(samples, c, m) ==
  CHOOSE i \in 1..Len(samples) :
    CountIn(samples, c, i) = m /\ samples[i].category = c

\* the position of the first sample of category c
FirstAt(samples, c) == ReachesAt(samples, c, 1)

FirstToReachMax(samples) ==
  CHOOSE c \in TiedCategories(samples) :
    \A d \in TiedCategories(samples) :
      ReachesAt(samples, c, HighestCount(samples))
        <= ReachesAt(samples, d, HighestCount(samples))

FirstSeenOfTied(samples) ==
  CHOOSE c \in TiedCategories(samples) :
    \A d \in TiedCategories(samples) : FirstAt(samples, c) <= FirstAt(samples, d)

\* C4 as claimed: the winner of a tie is the category that first reaches the
\* highest count in arrival order.  Violated by [A,B,B,A], which the code
\* resolves to A although B reaches 2 first.
C4_TieFirstToReachMax ==
  Processed =>
    \A n \in 1..Len(cachedData.workblocks) :
      \A k \in KeysOf(cachedData.workblocks[n]) :
        CategoriesIn(BucketSamples(k)) # {} =>
          cachedData.workblocks[n].category = FirstToReachMax(BucketSamples(k))

\* C4 as amended: among the categories with the highest count the winner is
\* the one whose first sample arrives first in the bucket.
C4_TieFirstSeen ==
  Processed =>
    \A n \in 1..Len(cachedData.workblocks) :
      \A k \in KeysOf(cachedData.workblocks[n]) :
        CategoriesIn(BucketSamples(k)) # {} =>
          cachedData.workblocks[n].category = FirstSeenOfTied(BucketSamples(k))

\* a bucket with a tie in which the two rules name different categories
C4_Witness ==
  /\ Processed
  /\ \E n \in 1..Len(cachedData.workblocks) :
       \E k \in KeysOf(cachedData.workblocks[n]) :
         /\ Cardinality(TiedCategories(BucketSamples(k))) >= 2
         /\ FirstToReachMax(BucketSamples(k)) # FirstSeenOfTied(BucketSamples(k))

(***************************************************************************)
(* C5: a maximal run of k buckets with consecutive indices, all non-idle   *)
(* and of one classified category, comes out as exactly one merged block   *)
(* of that category with isIdle = false, duration 300*k and exactly the    *)
(* buckets of the run.  Violated by the code for the reason of C1: two     *)
(* runs separated by an absent index are returned as one block.            *)
(***************************************************************************)
ClassifiedBlocks == TimeBlocks(cachedData.processes, cachedData.idle)

InRun(tb, k, c) ==
  \E i \in 1..Len(tb) : tb[i].key = k /\ ~tb[i].isIdle /\ tb[i].category = c

IsMaximalRun(tb, a, b, c) ==
  /\ a <= b
  /\ \A k \in a..b : InRun(tb, k, c)
  /\ ~InRun(tb, a - 1, c)
  /\ ~InRun(tb, b + 1, c)

\* C5: every maximal run a..b of category c is exactly one non-idle block of
\* category c, duration 300 * (b - a + 1) and buckets a..b
C5_MaximalRunIsOneBlock ==
  Processed =>
    \A i \in 1..Len(ClassifiedBlocks), j \in 1..Len(ClassifiedBlocks) :
      LET a == ClassifiedBlocks[i].key
          b == ClassifiedBlocks[j].key
          c == ClassifiedBlocks[i].category
      IN  (a # NaN /\ b # NaN /\ IsMaximalRun(ClassifiedBlocks, a, b, c)) =>
            Cardinality({n \in 1..Len(cachedData.workblocks) :
                           /\ cachedData.workblocks[n].category = c
                           /\ ~cachedData.workblocks[n].isIdle
                           /\ cachedData.workblocks[n].duration = 300 * (b - a + 1)
                           /\ KeysOf(cachedData.workblocks[n]) = a..b}) = 1

(***************************************************************************)
(* C6: a sample whose timestamp cannot be parsed is dropped: it appears in *)
(* no merged block, creates no bucket and adds nothing to any duration.    *)
(* Violated by the code: the sample lands in a bucket with key "NaN",      *)
(* which becomes a block of 300 s with an Invalid Date as start time (and  *)
(* no count of dropped records exists anywhere in the program).            *)
(***************************************************************************)
ValidKeys ==
  {blockKey(cachedData.processes[i].timestamp) :
     i \in {i \in 1..Len(cachedData.processes) : cachedData.processes[i].timestamp # NaN}}

\* C6: no merged block holds an unparsable record or an Invalid Date, and the
\* durations count the buckets of the parsable samples only
C6_UnparsableDropped ==
  Processed =>
    /\ \A n \in 1..Len(cachedData.workblocks) :
         /\ cachedData.workblocks[n].startTime # NaN
         /\ \A i \in 1..Len(cachedData.workblocks[n].processes) :
              cachedData.workblocks[n].processes[i].timestamp # NaN
    /\ workDuration + breakDuration = 300 * Cardinality(ValidKeys)

(***************************************************************************)
(* C7: samples without a resolved category.                                *)
(***************************************************************************)
Categorized(samples) == SelectSeq(samples, LAMBDA p : p.category # NoCategory)

RelabelledOther(samples) ==
  [i \in 1..Len(samples) |->
     IF samples[i].category = NoCategory
     THEN [samples[i] EXCEPT !.category = "Other"]
     ELSE samples[i]]

RECURSIVE SumSeconds(_, _)
SumSeconds(breakdown, S) ==
  IF S = {} THEN 0
  ELSE LET n == CHOOSE n \in S : TRUE
       IN  breakdown[n].seconds + SumSeconds(breakdown, S \ {n})

\* C7 as claimed: the breakdown is that of the list without the uncategorized
\* samples.  Violated: calculateBreakdown books them under "Other".
C7_BreakdownIgnoresUncategorized ==
  Processed =>
    cachedData.breakdown = calculateBreakdown(Categorized(cachedData.processes))

\* C7 as amended: an uncategorized sample adds nothing to the tally of its
\* bucket, and in the breakdown it counts 5 s under "Other" and in the total:
\* the breakdown is that of the list with each such sample relabelled "Other".
C7_UncategorizedCountsAsOther ==
  Processed =>
    /\ \A n \in 1..Len(cachedData.workblocks) :
         \A k \in KeysOf(cachedData.workblocks[n]) :
           cachedData.workblocks[n].category =
             BlockCategory(Categorized(BucketSamples(k)))
    /\ cachedData.breakdown = calculateBreakdown(RelabelledOther(cachedData.processes))
    /\ SumSeconds(cachedData.breakdown, 1..Len(cachedData.breakdown))
         = 5 * Len(cachedData.processes)
    /\ \A n \in 1..Len(cachedData.breakdown) :
         cachedData.breakdown[n].name = "Other" =>
           cachedData.breakdown[n].seconds =
             5 * Cardinality({i \in 1..Len(cachedData.processes) :
                                cachedData.processes[i].category \in {NoCategory, "Other"}})

\* the input mixes uncategorized samples with categorized ones in one bucket
C7_Witness ==
  /\ Processed
  /\ \E i \in 1..Len(cachedData.processes), j \in 1..Len(cachedData.processes) :
       /\ cachedData.processes[i].category = NoCategory
       /\ cachedData.processes[j].category \notin {NoCategory, "Other"}
       /\ blockKey(cachedData.processes[i].timestamp)
            = blockKey(cachedData.processes[j].timestamp)

(***************************************************************************)
(* C8: the three scores lie in 0..100, in every state.                     *)
(***************************************************************************)
C8_ScoresWithinBounds ==
  /\ scores.focusChart[1] \in 0..100
  /\ scores.meetingsChart[1] \in 0..100
  /\ scores.breaksChart[1] \in 0..100

\* scores computed from focus, meeting and break time all present
C8_Witness ==
  /\ Processed
  /\ scores.focusChart[1] > 0
  /\ scores.meetingsChart[1] > 0
  /\ scores.breaksChart[1] > 0

(***************************************************************************)
(* C9: with empty process and idle arrays the pipeline yields no blocks,   *)
(* no breakdown entries, zero durations and three scores of 0 (a score is  *)
(* never the NaN of 0/0).                                                  *)
(***************************************************************************)
C9_EmptyInputGivesZeros ==
  (Processed /\ cachedData.processes = <<>> /\ cachedData.idle = <<>>) =>
    /\ cachedData.workblocks = <<>>
    /\ cachedData.breakdown = <<>>
    /\ workDuration = 0
    /\ breakDuration = 0
    /\ scores.focusChart = <<0, 100>>
    /\ scores.meetingsChart = <<0, 100>>
    /\ scores.breaksChart = <<0, 100>>
    /\ scores.focusTime = 0
    /\ scores.meetingTime = 0

C9_Witness ==
  Processed /\ cachedData.processes = <<>> /\ cachedData.idle = <<>>

(***************************************************************************)
(* C10: after calculateScores, workDuration and breakDuration are the sums *)
(* of the durations of the non-idle and of the idle merged blocks, focus   *)
(* and meeting time are sums over non-idle blocks of the two category      *)
(* sets, and focusTime + meetingTime <= workDuration.                      *)
(***************************************************************************)
BlocksWhere(Test(_)) ==
  {n \in 1..Len(cachedData.workblocks) : Test(cachedData.workblocks[n])}

\* C10: the four sums and focusTime + meetingTime <= workDuration
C10_DurationSums ==
  Processed =>
    /\ workDuration =
         SumDurations(cachedData.workblocks, BlocksWhere(LAMBDA b : ~b.isIdle))
    /\ breakDuration =
         SumDurations(cachedData.workblocks, BlocksWhere(LAMBDA b : b.isIdle))
    /\ scores.focusTime =
         SumDurations(cachedData.workblocks,
                      BlocksWhere(LAMBDA b : ~b.isIdle /\ b.category \in
                                    {"Code", "Documentation", "Development", "Design"}))
    /\ scores.meetingTime =
         SumDurations(cachedData.workblocks,
                      BlocksWhere(LAMBDA b : ~b.isIdle /\ b.category \in
                                    {"Meeting", "Call", "Communication"}))
    /\ scores.focusTime + scores.meetingTime <= workDuration

\* an idle block of a focus category beside non-idle focus and meeting blocks
C10_Witness ==
  /\ Processed
  /\ \E n \in 1..Len(cachedData.workblocks) :
       cachedData.workblocks[n].isIdle /\ cachedData.workblocks[n].category = "Code"
  /\ scores.focusTime > 0
  /\ scores.meetingTime > 0

(***************************************************************************)
(* C2: overlapping loadDashboardData invocations are last-request-wins:    *)
(* once every invocation has completed, cachedData holds the responses and *)
(* the results of the invocation issued last.                              *)
(* Violated by the code, which has no generation token: whichever          *)
(* invocation completes last overwrites cachedData.                        *)
(***************************************************************************)
AllLoadsDone == \A i \in 1..Len(loads) : loads[i].pc = "done"

\* C2: when no invocation is pending, cachedData is the result of the last one issued
C2_LastRequestWins ==
  AllLoadsDone =>
    LET last == loads[Len(loads)]
    IN  /\ cachedData.processes = last.processesResponse
        /\ cachedData.resources = last.resourcesResponse
        /\ cachedData.idle = last.idleResponse
        /\ cachedData.workblocks =
             generateWorkblocks(last.processesResponse, last.idleResponse)
        /\ cachedData.breakdown = calculateBreakdown(last.processesResponse)

(***************************************************************************)
(* C13: running the pipeline again on identical process and idle arrays    *)
(* changes no output: merged blocks, breakdown, durations, scores,         *)
(* timeline series and the rows shown for the work blocks stay the same.   *)
(* The score of a row is drawn from Math.random(), so the rows differ.     *)
(***************************************************************************)
SameInputAgain ==
  /\ Processed
  /\ cachedData'.processes = cachedData.processes
  /\ cachedData'.idle = cachedData.idle

\* C13: a run on the arrays of the previous run leaves every output as it was
C13_RepeatGivesSameOutput ==
  [][SameInputAgain =>
       /\ cachedData'.workblocks = cachedData.workblocks
       /\ cachedData'.breakdown = cachedData.breakdown
       /\ workDuration' = workDuration
       /\ breakDuration' = breakDuration
       /\ scores' = scores
       /\ timelineChart' = timelineChart
       /\ workblocksList' = workblocksList]_vars

(***************************************************************************)
(* C11: a bucket's startTime depends on its index only, not on which       *)
(* samples land in it nor on their order.  The code takes the timestamp of *)
(* the first sample that arrives in the bucket, so 09:02 arriving before   *)
(* 09:00 gives bucket 108 the start 09:02.                                 *)
(***************************************************************************)
\* the samples of the input selected and ordered by f (f lists distinct positions)
Arrangements(n) ==
  {f \in SeqsUpTo(1..n, n) : \A i, j \in 1..Len(f) : f[i] = f[j] => i = j}

Arranged(samples, f) == [i \in 1..Len(f) |-> samples[f[i]]]

\* C11: every selection of the input's samples, in every order, gives each bucket
\* the startTime the bucket of that index has in this run
C11_StartTimeFromIndexAlone ==
  Processed =>
    \A f \in Arrangements(Len(cachedData.processes)) :
      LET other == GroupProcesses(<<>>, Arranged(cachedData.processes, f))
      IN  \A i \in 1..Len(other), j \in 1..Len(ClassifiedBlocks) :
            other[i].key = ClassifiedBlocks[j].key =>
              other[i].startTime = ClassifiedBlocks[j].startTime

(***************************************************************************)
(* C12: the buckets are merged in ascending index order whatever the order *)
(* of the samples of the day: the merged blocks come in ascending order of *)
(* their first bucket, the samples inside a block run through its buckets  *)
(* in ascending order, and every block holds at least one sample.          *)
(***************************************************************************)
FirstKey(block) == blockKey(block.processes[1].timestamp)

\* C12: merged blocks ascend by first bucket index; no block is empty
C12_BlocksAscendByIndex ==
  Processed =>
    LET wb == cachedData.workblocks
    IN  /\ \A n \in 1..Len(wb) : Len(wb[n].processes) > 0
        /\ \A n, m \in 1..Len(wb) : n < m => FirstKey(wb[n]) < FirstKey(wb[m])
        /\ \A n \in 1..Len(wb) : \A i, j \in 1..Len(wb[n].processes) :
              i < j => blockKey(wb[n].processes[i].timestamp)
                         <= blockKey(wb[n].processes[j].timestamp)

\* the samples arrive in descending bucket order and give two blocks or more
C12_Witness ==
  /\ Processed
  /\ Len(cachedData.workblocks) >= 2
  /\ \A i, j \in 1..Len(cachedData.processes) :
        i < j => blockKey(cachedData.processes[i].timestamp)
                   > blockKey(cachedData.processes[j].timestamp)

(***************************************************************************)
(* C14: samples of one 5-minute time-of-day window share a bucket, samples *)
(* of consecutive windows are in buckets whose indices differ by 1, and    *)
(* every index is in 0..287.                                               *)
(***************************************************************************)
\* the 5-minute window of the day an instant falls in, counted from midnight
Window(t) == (t % 1440) \div 5

\* the index of the bucket of tb that received the sample
IndexIn(tb, p) ==
  tb[CHOOSE i \in 1..Len(tb) :
            \E k \in 1..Len(tb[i].processes) : tb[i].processes[k] = p].key

\* C14: same window, same index; next window, index + 1; indices within 0..287
C14_BucketingByWindow ==
  Processed =>
    \A tb \in {ClassifiedBlocks} :
    \A i, j \in 1..Len(cachedData.processes) :
      LET p == cachedData.processes[i]
          q == cachedData.processes[j]
      IN  /\ IndexIn(tb, p) \in 0..287
          /\ Window(p.timestamp) = Window(q.timestamp) => IndexIn(tb, p) = IndexIn(tb, q)
          /\ Window(q.timestamp) = Window(p.timestamp) + 1
                => IndexIn(tb, q) = IndexIn(tb, p) + 1

\* two different instants of one window and one of the next window
C14_Witness ==
  /\ Processed
  /\ \E i, j, k \in 1..Len(cachedData.processes) :
        LET p == cachedData.processes[i]
            q == cachedData.processes[j]
            r == cachedData.processes[k]
        IN  /\ p.timestamp # q.timestamp
            /\ Window(p.timestamp) = Window(q.timestamp)
            /\ Window(r.timestamp) = Window(q.timestamp) + 1
            /\ IndexIn(ClassifiedBlocks, r) = IndexIn(ClassifiedBlocks, p) + 1

(***************************************************************************)
(* C15: a bucket without a categorized sample is "Other"; any other bucket *)
(* gets a category no other category of that bucket outnumbers, counted    *)
(* over the samples of that bucket only.                                   *)
(***************************************************************************)
\* C15: "Other" for no categorized sample, else one of the most frequent categories
C15_MajorityOrOther ==
  Processed =>
    \A tb \in {ClassifiedBlocks} :
    \A i \in 1..Len(tb) :
    \A S \in {BucketSamples(tb[i].key)} :
      /\ CategoriesIn(S) = {} => tb[i].category = "Other"
      /\ CategoriesIn(S) # {} => tb[i].category \in TiedCategories(S)
      /\ tb[i].category = "Other" =>
            (CategoriesIn(S) = {} \/ "Other" \in TiedCategories(S))

\* a bucket whose first sample is of the minority category, next to a bucket
\* or alone; the majority category wins
C15_Witness ==
  /\ Processed
  /\ \E i \in 1..Len(ClassifiedBlocks) :
        LET b == ClassifiedBlocks[i]
            S == BucketSamples(b.key)
        IN  /\ Len(S) >= 3
            /\ S[1].category # NoCategory
            /\ S[1].category # b.category
            /\ TiedCategories(S) = {b.category}

C17_BreakdownSortedDistinct ==
  Processed =>
    LET b == cachedData.breakdown
    IN  /\ \A i \in 1..(Len(b) - 1) : b[i].seconds >= b[i + 1].seconds
        /\ \A i, j \in 1..Len(b) : b[i].name = b[j].name => i = j

\* the category that arrives first has the fewest seconds and is not listed first
C17_Witness ==
  /\ Processed
  /\ Len(cachedData.breakdown) >= 2
  /\ cachedData.breakdown[1].seconds > cachedData.breakdown[2].seconds
  /\ cachedData.breakdown[Len(cachedData.breakdown)].name
       = (IF cachedData.processes[1].category = NoCategory
          THEN "Other" ELSE cachedData.processes[1].category)

(***************************************************************************)
(* C18: each sample is worth 5 seconds in the entry of its category (a     *)
(* sample without category is booked under "Other"), whatever the bucket   *)
(* and block durations are; percent is 100 * seconds / total rounded to    *)
(* the nearest integer and lies in 0..100.                                 *)
(***************************************************************************)
\* the number of samples booked under the name
SamplesNamed(name) ==
  Cardinality({i \in 1..Len(cachedData.processes) :
                 \/ cachedData.processes[i].category = name
                 \/ (name = "Other" /\ cachedData.processes[i].category = NoCategory)})

\* p is x / y rounded to the nearest integer, halves up
IsRounded(p, x, y) == 2 * x - y < 2 * y * p /\ 2 * y * p <= 2 * x + y

\* C18: seconds = 5 * samples of the category; the sum is 5 * all samples;
\* percent = round(100 * seconds / total), within 0..100
C18_FiveSecondsPerSample ==
  Processed =>
    LET b     == cachedData.breakdown
        total == 5 * Len(cachedData.processes)
    IN  /\ SumSeconds(b, 1..Len(b)) = total
        /\ \A i \in 1..Len(b) :
              /\ b[i].seconds = 5 * SamplesNamed(b[i].name)
              /\ b[i].seconds > 0
              /\ b[i].percent \in 0..100
              /\ IsRounded(b[i].percent, 100 * b[i].seconds, total)

\* three samples in one 300 s bucket, two categories: 10 s and 5 s, 67 % and 33 %
C18_Witness ==
  /\ Processed
  /\ Len(cachedData.processes) = 3
  /\ Len(cachedData.breakdown) = 2
  /\ workDuration = 5 * 60
  /\ cachedData.breakdown[1].seconds = 10 /\ cachedData.breakdown[1].percent = 67
  /\ cachedData.breakdown[2].seconds = 5 /\ cachedData.breakdown[2].percent = 33

(***************************************************************************)
(* C19: the labels and the four series of the timeline have one fixed      *)
(* length, whatever the merged blocks are, and no series value is          *)
(* negative.                                                               *)
(***************************************************************************)
SeriesNames == {"focus", "meetings", "other", "breaks"}

\* C19: 68 labels (06:00 to 22:45 in steps of 15 minutes), 68 values >= 0 per series
C19_TimelineFixedLength ==
  Processed =>
    /\ Len(timelineChart.labels) = (22 - 6 + 1) * 4
    /\ \A s \in SeriesNames :
          /\ Len(timelineChart[s]) = Len(timelineChart.labels)
          /\ \A i \in 1..Len(timelineChart[s]) : timelineChart[s][i] >= 0

\* one block is in the grid and shows, another starts at 23:00, after the last slot
C19_Witness ==
  /\ Processed
  /\ \E n \in 1..Len(cachedData.workblocks) :
        getHours(cachedData.workblocks[n].startTime) = 23
  /\ \E s \in SeriesNames : \E i \in 1..Len(timelineChart[s]) :
        timelineChart[s][i] > 0

(***************************************************************************)
(* C20: a merged block that starts inside the grid adds all its minutes to *)
(* the slot that contains its start time, in the series chosen by: idle -> *)
(* breaks, else focus category -> focus, else meeting category ->          *)
(* meetings, else other.  Every value of the chart is the sum of these.    *)
(***************************************************************************)
\* slot i (labelled h:m) contains the start time of the block
SlotContains(i, block) ==
  LET from  == 60 * timelineChart.labels[i][1] + timelineChart.labels[i][2]
      start == 60 * getHours(block.startTime) + getMinutes(block.startTime)
  IN  block.startTime # NaN /\ from <= start /\ start < from + 15

ExpectedSeries(block) ==
  IF block.isIdle THEN "breaks"
  ELSE IF block.category \in focusCategories THEN "focus"
       ELSE IF block.category \in meetingCategories THEN "meetings"
            ELSE "other"

\* C20: each value is the minutes of the blocks that start in the slot and
\* belong to the series
C20_WholeBlockInStartSlot ==
  Processed =>
    \A i \in 1..Len(timelineChart.labels) :
    \A inSlot \in {{n \in 1..Len(cachedData.workblocks) :
                      SlotContains(i, cachedData.workblocks[n])}} :
    \A s \in SeriesNames :
      timelineChart[s][i] =
        SumDurations(cachedData.workblocks,
                     {n \in inSlot : ExpectedSeries(cachedData.workblocks[n]) = s}) \div 60

\* an idle block of a focus category shows under breaks, and a block of another
\* series shows in another slot
C20_Witness ==
  /\ Processed
  /\ \E n, m \in 1..Len(cachedData.workblocks), i, j \in 1..Len(timelineChart.labels) :
        LET b == cachedData.workblocks[n]
            c == cachedData.workblocks[m]
        IN  /\ b.isIdle /\ b.category \in focusCategories
            /\ SlotContains(i, b) /\ timelineChart.breaks[i] = b.duration \div 60
            /\ timelineChart.focus[i] = 0
            /\ ~c.isIdle /\ i # j
            /\ SlotContains(j, c) /\ timelineChart[ExpectedSeries(c)][j] > 0

(***************************************************************************)
(* C21: a merged block that starts outside the grid window (before 06:00   *)
(* or from 23:00 on) changes no value of the four series, yet its seconds  *)
(* are part of workDuration + breakDuration; the four series together hold *)
(* the minutes of the blocks that start inside the window.                 *)
(***************************************************************************)
StartsInWindow(block) ==
  /\ block.startTime # NaN
  /\ 6 * 60 <= block.startTime % 1440
  /\ block.startTime % 1440 < 23 * 60

RECURSIVE SumSeries(_)
SumSeries(series) ==
  IF series = <<>> THEN 0 ELSE Head(series) + SumSeries(Tail(series))

ChartTotal ==
  SumSeries(timelineChart.focus) + SumSeries(timelineChart.meetings)
    + SumSeries(timelineChart.other) + SumSeries(timelineChart.breaks)

\* C21: the chart is the chart of the in-window blocks alone, its total is
\* their minutes, and the two duration totals cover every block
C21_OutsideBlocksOnlyInTotals ==
  Processed =>
    \A inside \in {{n \in 1..Len(cachedData.workblocks) :
                      StartsInWindow(cachedData.workblocks[n])}} :
      /\ timelineChart =
           updateTimeline(SelectSeq(cachedData.workblocks, StartsInWindow))
      /\ ChartTotal = SumDurations(cachedData.workblocks, inside) \div 60
      /\ workDuration + breakDuration =
           SumDurations(cachedData.workblocks, 1..Len(cachedData.workblocks))

\* one block starts inside the window and one outside it: the totals exceed
\* what the chart shows
C21_Witness ==
  /\ Processed
  /\ \E n, m \in 1..Len(cachedData.workblocks) :
        /\ StartsInWindow(cachedData.workblocks[n])
        /\ ~StartsInWindow(cachedData.workblocks[m])
  /\ ChartTotal > 0
  /\ workDuration + breakDuration > 60 * ChartTotal

(***************************************************************************)
(* C22: after every click on the start-break button the label reads        *)
(* "End Break" exactly when a break is in progress and "Start Break"       *)
(* exactly when none is, in both dashboard versions.                       *)
(***************************************************************************)
\* C22: once the button has been clicked, its label tells whether a break is
\* in progress
C22_BreakLabelMatchesState ==
  clicks["start-break"] > 0 =>
    startBreakBtn = IF breakInProgress THEN "End Break" ELSE "Start Break"

(***************************************************************************)
(* C23: on a dashboard that has just been initialised, one click on the    *)
(* toggle-tracking button leaves the label "Stop Tracking" and the         *)
(* tracking flag enabled by the time the click returns.                    *)
(***************************************************************************)
\* C23: after the first click, and before anything else has run, the label is
\* "Stop Tracking" and tracking is enabled
C23_FirstClickStartsTracking ==
  (/\ clicks["toggle-tracking"] = 1
   /\ clicks["start-break"] = 0
   /\ Len(apiCalls) = 1) =>
    /\ toggleTrackingBtn = "Stop Tracking"
    /\ trackingEnabled

(***************************************************************************)
(* C24: once the dashboard has initialised and loaded its data, the        *)
(* timeline chart has exactly 24 labels, whatever data was loaded.         *)
(***************************************************************************)
\* C24: after a completed load the label list of the timeline has 24 entries
C24_TwentyFourLabels ==
  (\E i \in 1..Len(loads) : loads[i].pc = "done") =>
    Len(timelineChart.labels) = 24

(***************************************************************************)
(* C25: merging conserves duration.  For samples with valid timestamps the *)
(* durations of the merged blocks sum to 300 times the number of distinct  *)
(* 5-minute windows hit by the samples, there are at most as many merged   *)
(* blocks as windows, and workDuration + breakDuration is that same sum.   *)
(***************************************************************************)
AllTimestampsValid ==
  \A i \in 1..Len(cachedData.processes) : cachedData.processes[i].timestamp # NaN

WindowsHit ==
  {Window(cachedData.processes[i].timestamp) : i \in 1..Len(cachedData.processes)}

\* C25: sum of block durations = 300 * windows hit = workDuration + breakDuration,
\* and no more blocks than windows
C25_DurationConserved ==
  (Processed /\ AllTimestampsValid) =>
    \A total \in {300 * Cardinality(WindowsHit)} :
      /\ SumDurations(cachedData.workblocks, 1..Len(cachedData.workblocks)) = total
      /\ Len(cachedData.workblocks) <= Cardinality(WindowsHit)
      /\ workDuration + breakDuration = total

\* two windows were merged into one block of 600 s
C25_Witness ==
  /\ Processed
  /\ AllTimestampsValid
  /\ Cardinality(WindowsHit) = 2
  /\ Len(cachedData.workblocks) = 1
  /\ cachedData.workblocks[1].duration = 2 * 300

(***************************************************************************)
(* C26: breakDuration is written by toggleBreak and by calculateScores.    *)
(* When a load completes, breakDuration is exactly the sum of the idle     *)
(* merged blocks of the loaded data, whatever manual breaks had added      *)
(* before; a break ended by toggleBreak adds its elapsed seconds to the    *)
(* value it finds.                                                         *)
(***************************************************************************)
\* the step in which some loadDashboardData invocation runs processData
LoadCompletes ==
  \E i \in 1..Len(loads) : loads[i].pc = "fetchIdleTime" /\ loads'[i].pc = "done"

IdleSeconds(blocks) ==
  SumDurations(blocks, {n \in 1..Len(blocks) : blocks[n].isIdle})

\* C26: a completing load sets breakDuration to the idle seconds of its data;
\* the end of a manual break adds the elapsed seconds
C26_BreakDurationShared ==
  [][/\ LoadCompletes => breakDuration' = IdleSeconds(cachedData'.workblocks)
     /\ (breakInProgress /\ ~breakInProgress')
          => breakDuration' = breakDuration + (now - breakStartTime)]_vars

\* a manual break of at least a second was ended and logged, then the load
\* completed: breakDuration holds the idle seconds of the data and no more
C26_Witness ==
  /\ \E i \in 1..Len(loads) : loads[i].pc = "done"
  /\ \E c \in 1..Len(apiCalls) :
        apiCalls[c].call = "logBreak" /\ apiCalls[c].endTime > apiCalls[c].startTime
  /\ IdleSeconds(cachedData.workblocks) > 0
  /\ breakDuration = IdleSeconds(cachedData.workblocks)

(***************************************************************************)
(* C29: in dashboard.js every call of toggleBreak negates breakInProgress. *)
(* The call that starts a break records the start time and calls nothing;  *)
(* the call that ends it calls api.logBreak once, with that start time and *)
(* an end time not earlier, adds the elapsed seconds to breakDuration and  *)
(* sets lastBreakTime.  So there is one logBreak call per completed break. *)
(***************************************************************************)
LoggedBreaks == SelectSeq(apiCalls, LAMBDA c : c.call = "logBreak")

BreakCall ==
  clicks'["start-break"] # clicks["start-break"]

\* C29: alternation, one logBreak per completed break, and what the starting
\* and the ending call do
C29_OneLogPerBreak ==
  /\ [](/\ breakInProgress <=> (clicks["start-break"] % 2 = 1)
        /\ Len(LoggedBreaks) = clicks["start-break"] \div 2)
  /\ [][/\ BreakCall <=> (breakInProgress' # breakInProgress)
        /\ (BreakCall /\ breakInProgress') =>
              /\ apiCalls' = apiCalls
              /\ breakStartTime' = now
              /\ breakDuration' = breakDuration
        /\ (BreakCall /\ ~breakInProgress') =>
              /\ apiCalls' = Append(apiCalls, [call |-> "logBreak",
                                               startTime |-> breakStartTime,
                                               endTime |-> now])
              /\ breakStartTime <= now
              /\ breakDuration' = breakDuration + (now - breakStartTime)
              /\ lastBreakTime' = now
        /\ breakInProgress => breakStartTime' = breakStartTime]_vars

\* a break that lasted at least a second has been ended and logged
C29_Witness ==
  /\ clicks["start-break"] = 2
  /\ ~breakInProgress
  /\ Len(LoggedBreaks) = 1
  /\ LoggedBreaks[1].startTime = breakStartTime
  /\ LoggedBreaks[1].endTime = breakEndTime
  /\ breakEndTime > breakStartTime
  /\ lastBreakTime = breakEndTime

(***************************************************************************)
(* C27: cachedData is never a mixture of two loads.  The three fetches of  *)
(* one loadDashboardData invocation use the date string it took before its *)
(* first await, even when currentDate changes while they are pending, and  *)
(* whenever a handler can run, the processes, resources, idle samples,     *)
(* work blocks and breakdown of cachedData are those of one invocation.    *)
(***************************************************************************)
\* the response of a fetch for the date: the server's data, or [] on a failure
AnswersFor(response, data) == response = data \/ response = <<>>

\* invocation i has completed and cachedData holds its responses and their results
CachedFrom(i) ==
  /\ loads[i].pc = "done"
  /\ cachedData.processes = loads[i].processesResponse
  /\ cachedData.resources = loads[i].resourcesResponse
  /\ cachedData.idle = loads[i].idleResponse
  /\ cachedData.workblocks =
       generateWorkblocks(loads[i].processesResponse, loads[i].idleResponse)
  /\ cachedData.breakdown = calculateBreakdown(loads[i].processesResponse)

\* C27: every response of an invocation answers its own date string, which is
\* the one of currentDate at the call and never changes; cachedData is empty
\* before the first completion and afterwards comes whole from one invocation
C27_NeverAMixture ==
  /\ [](/\ \A i \in 1..Len(loads) :
             /\ AnswersFor(loads[i].processesResponse,
                           ServerProcesses(loads[i].dateStr))
                  \/ loads[i].pc = "fetchProcesses"
             /\ AnswersFor(loads[i].resourcesResponse,
                           ServerResources(loads[i].dateStr))
                  \/ loads[i].pc \in {"fetchProcesses", "fetchResources"}
             /\ AnswersFor(loads[i].idleResponse, ServerIdle(loads[i].dateStr))
                  \/ loads[i].pc # "done"
        /\ IF Processed
           THEN \E i \in 1..Len(loads) : CachedFrom(i)
           ELSE /\ cachedData.processes = <<>> /\ cachedData.resources = <<>>
                /\ cachedData.idle = <<>> /\ cachedData.workblocks = <<>>
                /\ cachedData.breakdown = <<>>)
  /\ [][/\ \A i \in 1..Len(loads) : loads'[i].dateStr = loads[i].dateStr
        /\ Len(loads') > Len(loads) =>
             loads'[Len(loads')].dateStr = formatDateForAPI(currentDate', utcDayShift)]_vars

\* the second invocation was issued for another date and has completed; the
\* first one completed after it, with the data of its own date
C27_Witness ==
  /\ Len(loads) = 2
  /\ loads[1].dateStr # loads[2].dateStr
  /\ loads[2].pc = "done"
  /\ CachedFrom(1)
  /\ cachedData.processes = ServerProcesses(loads[1].dateStr)
  /\ cachedData.resources = ServerResources(loads[1].dateStr)
  /\ loads[1].dateStr # formatDateForAPI(currentDate, utcDayShift)

(***************************************************************************)
(* C30: api.fetchProcesses, api.fetchResources and api.fetchIdleTime never *)
(* reject; a failed request resolves to an empty array.  An invocation of  *)
(* loadDashboardData therefore always goes on to the next fetch and ends   *)
(* by running processData and updateDashboard, with a failed stream as an  *)
(* empty one, and what it computes replaces what was cached before.        *)
(***************************************************************************)
\* the await that follows each await of loadDashboardData
NextPc(pc) ==
  IF pc = "fetchProcesses" THEN "fetchResources"
  ELSE IF pc = "fetchResources" THEN "fetchIdleTime" ELSE "done"

\* C30: an invocation only moves from one fetch to the next; the step that
\* ends it puts its three responses, empty ones included, and what is
\* computed from them into cachedData and onto the timeline
C30_FailedFetchIsEmptyData ==
  [][\A i \in 1..Len(loads) :
       loads'[i] # loads[i] =>
         /\ loads'[i].pc = NextPc(loads[i].pc)
         /\ loads'[i].pc = "done" =>
              /\ cachedData'.processes = loads'[i].processesResponse
              /\ cachedData'.resources = loads'[i].resourcesResponse
              /\ cachedData'.idle = loads'[i].idleResponse
              /\ cachedData'.workblocks =
                   generateWorkblocks(loads'[i].processesResponse,
                                      loads'[i].idleResponse)
              /\ cachedData'.breakdown =
                   calculateBreakdown(loads'[i].processesResponse)
              /\ timelineChart' = updateTimeline(cachedData'.workblocks)]_vars

\* the first invocation got all its data and completed; the second one, whose
\* three fetches failed, completed after it and emptied the cache
C30_Witness ==
  /\ Processed
  /\ Len(loads) = 2
  /\ loads[1].pc = "done" /\ loads[2].pc = "done"
  /\ loads[1].processesResponse # <<>>
  /\ loads[2].processesResponse = <<>>
  /\ loads[2].resourcesResponse = <<>>
  /\ loads[2].idleResponse = <<>>
  /\ cachedData.processes = <<>>
  /\ cachedData.resources = <<>>
  /\ cachedData.workblocks = <<>>

(***************************************************************************)
(* C28: bucketing and merging lose and duplicate no sample.  For samples   *)
(* with valid timestamps every input sample is, exactly once, in the       *)
(* processes of exactly one merged block, and the samples of a merged      *)
(* block lie in the block's run of windows: the duration / 300 windows     *)
(* that begin with the window of its start time.                           *)
(* Violated by the code through the merge across a gap (C1): the block     *)
(* made of windows 108 and 110 has a run of two windows, 108..109, and     *)
(* holds a sample of window 110.                                           *)
(***************************************************************************)
Occurrences(samples, p) ==
  Cardinality({i \in 1..Len(samples) : samples[i] = p})

RunOf(block) ==
  Window(block.startTime)..(Window(block.startTime) + (block.duration \div 300) - 1)

SamplesKept ==
  \A i \in 1..Len(cachedData.processes) :
    \A holders \in {{n \in 1..Len(cachedData.workblocks) :
                       Occurrences(cachedData.workblocks[n].processes,
                                   cachedData.processes[i]) > 0}} :
      /\ Cardinality(holders) = 1
      /\ \A n \in holders :
            Occurrences(cachedData.workblocks[n].processes, cachedData.processes[i])
              = Occurrences(cachedData.processes, cachedData.processes[i])

SamplesInsideRun ==
  \A n \in 1..Len(cachedData.workblocks) :
    \A i \in 1..Len(cachedData.workblocks[n].processes) :
      Window(cachedData.workblocks[n].processes[i].timestamp)
        \in RunOf(cachedData.workblocks[n])

\* C28: each sample once in one block, and inside the run of windows of its block
C28_NoSampleLostOrDuplicated ==
  (Processed /\ AllTimestampsValid) => (SamplesKept /\ SamplesInsideRun)

====
